---- MODULE Spec2Model ----
(***************************************************************************)
(* Highlight-reel pipeline of h4b_backend.                                 *)
(*                                                                         *)
(*   SpecAlloc : getPeakMoments' treatment of the detection response       *)
(*               (primary parse, fallback numeric scan, 30-second limit),  *)
(*               one action per code step.                                 *)
(*   Spec      : one run of extractVideoHighlights, alone (the route) or   *)
(*               inside processAndSaveVideoHighlights, over a file system. *)
(*   SpecSplitter : CloudinaryVideoSplitter used directly: constructor,    *)
(*               processVideo on any list of pairs, then cleanup() calls.  *)
(*   SpecPair  : two requests served by one process, their runs of         *)
(*               extractVideoHighlights interleaved at every await.        *)
(*                                                                         *)
(* Times are whole seconds; floating-point rounding is not modelled.       *)
(***************************************************************************)
EXTENDS Integers, Sequences, FiniteSets, TLC

\* ------------------------------------------------------------------ bounds
\* Longest response (entries of the returned array) that is enumerated.
MaxProposals == 3
\* Longest plan handed to the splitter in a pipeline run.
MaxSegments == 3
\* Most calls of cleanup() made on one splitter object.
MaxCleanups == 3
\* Number of distinct values uuidv4() is given to draw tempDir names from.
MaxUuids == 3

\* ------------------------------------------------------- program constants
BudgetSeconds == 30
MinClipSeconds == 3
MaxFallbackSpan == 15
MinFallbackTokens == 4

VARIABLES
  \* --- detection response handling (getPeakMoments, inner try/catch)
  apc,          \* position in getPeakMoments' parsing code
  resp,         \* the service's response text, as [parses, entries]
  budget,       \* aggregate-duration ceiling of this allocation
  parsePath,    \* "none" | "primary" | "fallback": which stage built `valid`
  valid,        \* validTimestamps / fallbackTimestamps
  idx,          \* loop position in `valid` (1-based)
  total,        \* totalDuration
  final,        \* finalTimestamps / limitedFallback
  result,       \* value returned by getPeakMoments
  truncAt,      \* index in `valid` of the proposal that was truncated, or 0
  \* --- one pipeline run
  pc,           \* position of the run
  caller,       \* "route" (createVideoHighlights) | "workflow" (processAndSave...)
  outputDir,    \* TRUE iff the caller supplied outputDir
  uploadOk,     \* environment: a Cloudinary upload, if attempted, succeeds
  saveOk,       \* environment: mediaItem.save(), if attempted, succeeds
  files,        \* paths that exist on disk
  timestamps,   \* value returned by getPeakMoments to extractVideoHighlights
  segIdx,       \* splitVideo's loop index i (1-based)
  segmentPaths, \* splitVideo's segmentPaths
  pending,      \* how the try block of extractVideoHighlights was left
  cleanupCalls, \* number of calls of videoSplitter.cleanup()
  wsCreated,    \* TRUE once new CloudinaryVideoSplitter() has run
  retPath,      \* path returned by extractVideoHighlights, or "none"
  failedAt,     \* stage whose failure ended the run, or "none"
  wfResult,     \* processAndSaveVideoHighlights' result.success: "none"|"success"|"failure"
  uploaded,     \* a highlights video is stored on Cloudinary
  saved,        \* a MediaItem was saved
  service,      \* what the detection service did: "none"|"response"|"service_error"|"text_error"
  manifest,     \* lines of segments.txt as mergeSegments wrote them
  emptyFiles,   \* paths in `files` whose size is zero
  cleanupFailed, \* TRUE once a call of cleanup() has thrown
  \* --- two runs of extractVideoHighlights in one server process
  runPc,        \* position of each run
  runDir,       \* uuid in each run's tempDir name, 0 before the constructor
  runOut,       \* outputDir/outputFilename each request supplied, or "none"
  runPending,   \* how each run's try block was left: "none"|"return"|"throw"
  runRet,       \* path each run returned, or NoPath
  disk,         \* files on disk, each with the run whose data it holds
  overlapped    \* TRUE once both runs were in progress at the same time

allocVars == <<apc, resp, budget, parsePath, valid, idx, total, final, result, truncAt>>
pipeVars == <<pc, caller, outputDir, uploadOk, saveOk, files, timestamps, segIdx,
              segmentPaths, pending, cleanupCalls, wsCreated, retPath, failedAt,
              wfResult, uploaded, saved, service, manifest, emptyFiles,
              cleanupFailed>>
pairVars == <<runPc, runDir, runOut, runPending, runRet, disk, overlapped>>
vars == <<allocVars, pipeVars, pairVars>>

\* ======================================================================
\*  Detection response: parsing and the 30-second limit
\* ======================================================================

\* An element of the array the service returned.  pair = FALSE stands for an
\* element that is not a 2-element array of numbers (a bare number in the text).
Entry(p, s, e) == [pair |-> p, s |-> s, e |-> e]

\* Elements a response is built from: the worked example of the specification
\* ([5,8], [20,23], [40,50]), long and huge segments, one that leaves a
\* single second of the limit, a one-second segment, and malformed ones.
EntryPool ==
  { Entry(TRUE, 5, 8), Entry(TRUE, 20, 23), Entry(TRUE, 40, 50),
    Entry(TRUE, 10, 37), Entry(TRUE, 0, 100), Entry(TRUE, 0, 14),
    Entry(TRUE, 1, 30), Entry(TRUE, 1, 2),
    Entry(TRUE, 8, 5), Entry(TRUE, 5, 5), Entry(TRUE, -2, 3),
    Entry(FALSE, 7, 7) }

Responses ==
  [ parses : BOOLEAN,
    entries : UNION { [1..n -> EntryPool] : n \in 0..MaxProposals } ]

Dur(p) == p[2] - p[1]

RECURSIVE SumDur(_)
SumDur(segs) == IF segs = <<>> THEN 0 ELSE Dur(Head(segs)) + SumDur(Tail(segs))

\* validTimestamps' filter predicate.
IsValidPairNoOrder(x) == x.pair /\ ~(x.s < 0)
IsValidPair(x) == x.pair /\ ~(x.s >= x.e \/ x.s < 0)

ToPairs(es) == [ i \in 1..Len(es) |-> <<es[i].s, es[i].e>> ]

\* One malformed entry empties the whole list.
ValidTimestampsAllOrNothing(es) ==
  IF \A i \in 1..Len(es) : IsValidPair(es[i]) THEN ToPairs(es) ELSE <<>>
ValidTimestamps(es) == ToPairs(SelectSeq(es, IsValidPair))

\* /\d+\.?\d*/g over the raw text: digit runs only, so a minus sign is lost.
Abs(n) == IF n < 0 THEN -n ELSE n
TokensOf(x) == IF x.pair THEN <<Abs(x.s), Abs(x.e)>> ELSE <<Abs(x.s)>>

RECURSIVE NumberMatches(_)
NumberMatches(es) ==
  IF es = <<>> THEN <<>> ELSE TokensOf(Head(es)) \o NumberMatches(Tail(es))

\* The fallback's test on a pair of consecutive numbers.
FallbackKeeps(p) == p[1] < p[2] /\ p[2] - p[1] <= MaxFallbackSpan

\* for (i = 0; i < numbers.length - 1; i += 2)
FallbackTimestamps(numbers) ==
  SelectSeq([ k \in 1..(Len(numbers) \div 2) |-> <<numbers[2*k - 1], numbers[2*k]>> ],
            FallbackKeeps)

\* if (totalDuration + segmentDuration <= 30)
FitsStrict(tot, dur, bud) == tot + dur < bud
FitsIgnoresTotal(tot, dur, bud) == dur <= bud
Fits(tot, dur, bud) == tot + dur <= bud

\* `break` after a proposal that neither fits nor is truncated.
AfterMisfitContinues(i, n) == IF i < n THEN "continue" ELSE "break"
AfterMisfit(i, n) == "break"

\* if (remainingTime >= 3)
MayTruncateNever(remaining) == FALSE
MayTruncateAnyRemainder(remaining) == remaining > 0
MayTruncate(remaining) == remaining >= MinClipSeconds

\* const truncatedEnd = start + remainingTime
TruncatedEndKeepsEnd(start, end, remaining) == end
TruncatedEnd(start, end, remaining) == start + remaining

\* The 30-second limit is written into the loops as a literal; `budget` holds
\* it so that the same loops can also be run at another ceiling.
AllocInit(ceiling) ==
  /\ apc = "parse"
  /\ resp \in Responses
  /\ budget = ceiling
  /\ parsePath = "none"
  /\ valid = <<>>
  /\ idx = 1
  /\ total = 0
  /\ final = <<>>
  /\ result = <<>>
  /\ truncAt = 0

\* JSON.parse succeeds: empty-array return, else the validTimestamps filter.
ParseResponse ==
  /\ apc = "parse"
  /\ resp.parses
  /\ IF Len(resp.entries) = 0
       THEN /\ apc' = "done"
            /\ UNCHANGED <<parsePath, valid>>
       ELSE /\ parsePath' = "primary"
            /\ valid' = ValidTimestamps(resp.entries)
            /\ apc' = IF valid' = <<>> THEN "return" ELSE "alloc"
  /\ UNCHANGED <<resp, budget, idx, total, final, result, truncAt, pipeVars, pairVars>>

\* JSON.parse throws: control enters the catch block.
ParseThrows ==
  /\ apc = "parse"
  /\ ~resp.parses
  /\ apc' = "catch"
  /\ UNCHANGED <<resp, budget, parsePath, valid, idx, total, final, result, truncAt, pipeVars, pairVars>>

\* One iteration of `for (const [start, end] of validTimestamps)`.
AllocStep ==
  /\ apc = "alloc"
  /\ LET p == valid[idx]
         remaining == budget - total
     IN IF Fits(total, Dur(p), budget)
          THEN /\ final' = Append(final, p)
               /\ total' = total + Dur(p)
               /\ idx' = idx + 1
               /\ apc' = IF idx + 1 > Len(valid) THEN "return" ELSE "alloc"
               /\ UNCHANGED truncAt
          ELSE IF MayTruncate(remaining)
            THEN /\ final' = Append(final, <<p[1], TruncatedEnd(p[1], p[2], remaining)>>)
                 /\ total' = budget
                 /\ truncAt' = idx
                 /\ apc' = "return"
                 /\ UNCHANGED idx
            ELSE IF AfterMisfit(idx, Len(valid)) = "break"
              THEN /\ apc' = "return"
                   /\ UNCHANGED <<final, total, idx, truncAt>>
              ELSE /\ idx' = idx + 1
                   /\ apc' = "alloc"
                   /\ UNCHANGED <<final, total, truncAt>>
  /\ UNCHANGED <<resp, budget, parsePath, valid, result, pipeVars, pairVars>>

\* if (finalTimestamps.length === 0) return []; return finalTimestamps;
PrimaryReturn ==
  /\ apc = "return"
  /\ result' = final
  /\ apc' = "done"
  /\ UNCHANGED <<resp, budget, parsePath, valid, idx, total, final, truncAt, pipeVars, pairVars>>

\* catch: scan the numbers of the raw text and pair them.
FallbackScan ==
  /\ apc = "catch"
  /\ LET numbers == NumberMatches(resp.entries)
     IN IF Len(numbers) >= MinFallbackTokens
          THEN /\ parsePath' = "fallback"
               /\ valid' = FallbackTimestamps(numbers)
               /\ apc' = IF valid' = <<>> THEN "done" ELSE "fb_alloc"
          ELSE /\ apc' = "done"
               /\ UNCHANGED <<parsePath, valid>>
  /\ UNCHANGED <<resp, budget, idx, total, final, result, truncAt, pipeVars, pairVars>>

\* One iteration of `for (const [start, end] of fallbackTimestamps)`.
FallbackAllocStep ==
  /\ apc = "fb_alloc"
  /\ LET p == valid[idx]
     IN IF Fits(total, Dur(p), budget)
          THEN /\ final' = Append(final, p)
               /\ total' = total + Dur(p)
               /\ idx' = idx + 1
               /\ apc' = IF idx + 1 > Len(valid) THEN "fb_return" ELSE "fb_alloc"
          ELSE IF AfterMisfit(idx, Len(valid)) = "break"
            THEN /\ apc' = "fb_return"
                 /\ UNCHANGED <<final, total, idx>>
            ELSE /\ idx' = idx + 1
                 /\ apc' = "fb_alloc"
                 /\ UNCHANGED <<final, total>>
  /\ UNCHANGED <<resp, budget, parsePath, valid, result, truncAt, pipeVars, pairVars>>

\* if (limitedFallback.length > 0) return limitedFallback; ... return [];
FallbackReturn ==
  /\ apc = "fb_return"
  /\ result' = IF Len(final) > 0 THEN final ELSE <<>>
  /\ apc' = "done"
  /\ UNCHANGED <<resp, budget, parsePath, valid, idx, total, final, truncAt, pipeVars, pairVars>>

AllocNext ==
  \/ ParseResponse
  \/ ParseThrows
  \/ AllocStep
  \/ PrimaryReturn
  \/ FallbackScan
  \/ FallbackAllocStep
  \/ FallbackReturn

\* Allocation variables while a pipeline run is modelled.
AllocIdle ==
  /\ apc = "idle"
  /\ resp = [parses |-> FALSE, entries |-> <<>>]
  /\ budget = BudgetSeconds
  /\ parsePath = "none"
  /\ valid = <<>>
  /\ idx = 1
  /\ total = 0
  /\ final = <<>>
  /\ result = <<>>
  /\ truncAt = 0

\* ======================================================================
\*  One pipeline run over the file system
\* ======================================================================

Path(d, nm, k) == [dir |-> d, name |-> nm, seq |-> k]

NoPath == Path("none", "none", 0)
\* getPeakMoments: path.join(os.tmpdir(), `video-${uuidv4()}.mp4`)
TmpVideo == Path("tmp", "video", 0)
\* constructor: path.join(os.tmpdir(), `video-splitter-${uuidv4()}`)
WsDir == Path("tmp", "video-splitter", 0)
\* downloadVideo: path.join(this.tempDir, `original-${uuidv4()}.mp4`)
Original == Path("ws", "original", 0)
\* splitVideo: path.join(this.tempDir, `segment-${i+1}-${uuidv4()}.mp4`)
Segment(i) == Path("ws", "segment", i)
\* mergeSegments: path.join(this.tempDir, 'segments.txt')
ListFile == Path("ws", "segments.txt", 0)
\* mergeSegments: path.join(this.tempDir, outputFilename)
TempOutput == Path("ws", "highlights", 0)
\* extractVideoHighlights: path.join(outputDir || os.tmpdir(), finalOutputFilename)
OutputPath(dirGiven) ==
  IF dirGiven THEN Path("out", "highlights", 0) ELSE Path("tmp", "highlights", 0)

\* Plans getPeakMoments can return: n segments of 3 s each, n = 0 included.
Plan(n) == [ i \in 1..n |-> <<10 * i, 10 * i + 3>> ]
Plans == { Plan(n) : n \in 0..MaxSegments }

\* try { ... } finally { videoSplitter.cleanup() }: where control goes when
\* the try block is left by `return` or by a throw.
AfterTryNoFinally(how) == IF how = "throw" THEN "failed" ELSE "cleanup"
AfterTry(how) == "cleanup"

\* What getPeakMoments does with the outcome of the service call:
\* generateContent sits outside the inner try, and the inner catch calls
\* result.response.text() again, so both failures leave by a throw; only a
\* response with readable text is turned into a (possibly empty) list.
DetectionOutcomeSwallows(o) == IF o = "response" THEN "list" ELSE "empty"
DetectionOutcome(o) == IF o = "response" THEN "list" ELSE "throw"

\* if (!timestamps.length)
NoMomentsNever(ts) == FALSE
NoMoments(ts) == Len(ts) = 0

\* if (outputDir && tempOutputPath !== outputPath): the reel is copied out.
CopiesReelAlways(dirGiven) == TRUE
CopiesReel(dirGiven) == dirGiven

\* processAndSaveVideoHighlights' try/catch: success:true is returned at the
\* end of the try block, every throw on the way becomes success:false.
WfOutcomeRethrows(extracted, exists, upOk, unlinkOk, svOk) ==
  IF ~extracted THEN "throw"
  ELSE IF exists /\ upOk /\ unlinkOk /\ svOk THEN "success" ELSE "failure"
WfOutcome(extracted, exists, upOk, unlinkOk, svOk) ==
  IF extracted /\ exists /\ upOk /\ unlinkOk /\ svOk THEN "success" ELSE "failure"

\* Lists a caller of processVideo can pass: any pairs, among them pairs of
\* zero and of negative duration.
SegPool == { <<10, 13>>, <<20, 23>>, <<9, 9>>, <<8, 5>> }
DirectPlans == UNION { [1..n -> SegPool] : n \in 0..MaxSegments }

\* segmentPaths.map(p => `file '${p}'`).join('\n')
RECURSIVE Reverse(_)
Reverse(sq) == IF sq = <<>> THEN <<>> ELSE Append(Reverse(Tail(sq)), Head(sq))
ManifestReversed(paths) == Reverse(paths)
ManifestOf(paths) == paths

\* mergeSegments after the join: if (fs.existsSync(outputPath)) ... else throw;
\* the size read by statSync is only logged.
MergedOutputOk(exists, sizeZero) == exists

\* What the ffprobe child does to the promise mergeSegments awaits.
ProbeEffect(o) ==
  CASE o \in {"ok", "nonzero", "unparsable"} -> "resolve"
    [] o = "spawn_error" -> "uncaught"
    [] OTHER -> "pending"

\* cleanup(): unlink every file of tempDir, then rmdir.
AfterCleanupKeepsSegments(fs) ==
  { f \in fs : (f.dir # "ws" /\ f # WsDir) \/ f.name = "segment" }
AfterCleanup(fs) == { f \in fs : f.dir # "ws" /\ f # WsDir }

\* cleanup(): if (fs.existsSync(this.tempDir)) { ... }
CleanupGuardAlways(fs) == TRUE
CleanupGuard(fs) == WsDir \in fs

\* readdirSync of a directory that does not exist throws ENOENT.
CleanupThrows(fs) == CleanupGuard(fs) /\ WsDir \notin fs
CleanupFiles(fs) == IF CleanupGuard(fs) /\ WsDir \in fs THEN AfterCleanup(fs) ELSE fs

PipeInit ==
  /\ pc = "get_peak_moments"
  /\ caller \in {"route", "workflow"}
  /\ outputDir \in BOOLEAN
  /\ uploadOk \in BOOLEAN
  /\ saveOk \in BOOLEAN
  \* processAndSaveVideoHighlights calls extractVideoHighlights(cloudinaryUrl)
  /\ caller = "workflow" => ~outputDir
  /\ caller = "route" => uploadOk /\ saveOk
  /\ files = {}
  /\ timestamps = <<>>
  /\ segIdx = 1
  /\ segmentPaths = <<>>
  /\ pending = "none"
  /\ cleanupCalls = 0
  /\ wsCreated = FALSE
  /\ retPath = NoPath
  /\ failedAt = "none"
  /\ wfResult = "none"
  /\ uploaded = FALSE
  /\ saved = FALSE
  /\ service = "none"
  /\ manifest = <<>>
  /\ emptyFiles = {}
  /\ cleanupFailed = FALSE

\* A throw that leaves extractVideoHighlights outside its try block.
ThrowOutside(stage) ==
  /\ pc' = "failed"
  /\ failedAt' = stage

\* A throw out of processVideo (its catch rethrows).  Inside
\* extractVideoHighlights' try block the finally clause decides what runs
\* next; a direct caller of processVideo gets the throw.
ThrowInside(stage) ==
  /\ pending' = "throw"
  /\ failedAt' = stage
  /\ pc' = IF caller = "direct" THEN "pv_threw" ELSE AfterTry("throw")

\* getPeakMoments up to its try: API key check and download to os.tmpdir().
PeakDownload ==
  /\ pc = "get_peak_moments"
  /\ \E o \in {"no_api_key", "http_error", "finish", "write_error", "stream_error"} :
       CASE o = "finish" ->
              /\ files' = files \cup {TmpVideo}
              /\ pc' = "analyze"
              /\ UNCHANGED failedAt
         [] o = "stream_error" ->
              \* response.data fails: the writer sees neither 'finish' nor
              \* 'error', the awaited promise never settles
              /\ files' = files \cup {TmpVideo}
              /\ pc' = "fetch_pending"
              /\ UNCHANGED failedAt
         [] o = "write_error" ->
              \* the write stream may or may not have created the file
              /\ \E created \in BOOLEAN :
                   files' = IF created THEN files \cup {TmpVideo} ELSE files
              /\ ThrowOutside("detect_download")
         [] OTHER ->
              /\ UNCHANGED files
              /\ ThrowOutside("detect_download")
  /\ UNCHANGED <<caller, outputDir, uploadOk, saveOk, service, manifest,
                 emptyFiles, cleanupFailed, timestamps, segIdx, segmentPaths,
                 pending, cleanupCalls, wsCreated, retPath, wfResult, uploaded, saved,
                 allocVars, pairVars>>

\* getPeakMoments' try/finally: the service call, the parsed result, and the
\* unlink of the downloaded copy.
PeakAnalyze ==
  /\ pc = "analyze"
  /\ files' = files \ {TmpVideo}
  /\ \E o \in {"service_error", "text_error", "response"} :
       /\ service' = o
       /\ CASE DetectionOutcome(o) = "list" ->
                 /\ timestamps' \in Plans
                 /\ pc' = "check_moments"
                 /\ UNCHANGED failedAt
            [] DetectionOutcome(o) = "empty" ->
                 /\ timestamps' = <<>>
                 /\ pc' = "check_moments"
                 /\ UNCHANGED failedAt
            [] OTHER ->
                 /\ ThrowOutside("detect")
                 /\ UNCHANGED timestamps
  /\ UNCHANGED <<caller, outputDir, uploadOk, saveOk, manifest,
                 emptyFiles, cleanupFailed, segIdx, segmentPaths,
                 pending, cleanupCalls, wsCreated, retPath, wfResult, uploaded, saved,
                 allocVars, pairVars>>

\* if (!timestamps.length) throw new Error('No peak moments detected in the video')
CheckMoments ==
  /\ pc = "check_moments"
  /\ IF NoMoments(timestamps)
       THEN ThrowOutside("no_highlights")
       ELSE /\ pc' = "new_splitter"
            /\ UNCHANGED failedAt
  /\ UNCHANGED <<caller, outputDir, uploadOk, saveOk, service, manifest,
                 emptyFiles, cleanupFailed, files, timestamps, segIdx,
                 segmentPaths, pending, cleanupCalls, wsCreated, retPath, wfResult,
                 uploaded, saved, allocVars, pairVars>>

\* new CloudinaryVideoSplitter(): mkdir of the unique temp directory.
NewSplitter ==
  /\ pc = "new_splitter"
  /\ \E ok \in BOOLEAN :
       IF ok
         THEN /\ files' = files \cup {WsDir}
              /\ wsCreated' = TRUE
              /\ pc' = "download"
              /\ UNCHANGED failedAt
         ELSE /\ ThrowOutside("workspace")
              /\ UNCHANGED <<files, wsCreated>>
  /\ UNCHANGED <<caller, outputDir, uploadOk, saveOk, service, manifest,
                 emptyFiles, cleanupFailed, timestamps, segIdx,
                 segmentPaths, pending, cleanupCalls, retPath, wfResult,
                 uploaded, saved, allocVars, pairVars>>

\* processVideo -> downloadVideo
DownloadVideo ==
  /\ pc = "download"
  /\ \E o \in {"http_error", "finish", "write_error", "stream_error"} :
       CASE o = "finish" ->
              /\ files' = files \cup {Original}
              \* splitVideo's loop runs zero times on an empty list
              /\ pc' = IF Len(timestamps) = 0 THEN "merge" ELSE "split"
              /\ UNCHANGED <<pending, failedAt>>
         [] o = "stream_error" ->
              /\ files' = files \cup {Original}
              /\ pc' = "fetch_pending"
              /\ UNCHANGED <<pending, failedAt>>
         [] o = "write_error" ->
              /\ \E created \in BOOLEAN :
                   files' = IF created THEN files \cup {Original} ELSE files
              /\ ThrowInside("download")
         [] OTHER ->
              /\ UNCHANGED files
              /\ ThrowInside("download")
  /\ UNCHANGED <<caller, outputDir, uploadOk, saveOk, service, manifest,
                 emptyFiles, cleanupFailed, timestamps, segIdx, segmentPaths,
                 cleanupCalls, wsCreated, retPath, wfResult, uploaded, saved, allocVars, pairVars>>

\* One iteration of splitVideo's loop (executeFFmpeg awaited inside it).
SplitStep ==
  /\ pc = "split"
  /\ LET seg == timestamps[segIdx]
         next == IF segIdx + 1 > Len(timestamps) THEN "merge" ELSE "split"
     IN IF Dur(seg) <= 0
          THEN /\ segIdx' = segIdx + 1
               /\ pc' = next
               /\ UNCHANGED <<files, segmentPaths, pending, failedAt>>
          ELSE \E o \in {"exit0", "exit0_no_file", "nonzero", "spawn_error", "never_exits"} :
                 CASE o = "never_exits" ->
                        \* no 'close', no 'error': executeFFmpeg's promise stays pending
                        /\ pc' = "tool_pending"
                        /\ UNCHANGED <<files, segmentPaths, segIdx, pending, failedAt>>
                   [] o = "exit0" ->
                        /\ files' = files \cup {Segment(segIdx)}
                        /\ segmentPaths' = Append(segmentPaths, Segment(segIdx))
                        /\ segIdx' = segIdx + 1
                        /\ pc' = next
                        /\ UNCHANGED <<pending, failedAt>>
                   [] o = "exit0_no_file" ->
                        /\ segmentPaths' = Append(segmentPaths, Segment(segIdx))
                        /\ segIdx' = segIdx + 1
                        /\ pc' = next
                        /\ UNCHANGED <<files, pending, failedAt>>
                   [] o = "nonzero" ->
                        /\ \E partial \in BOOLEAN :
                             files' = IF partial THEN files \cup {Segment(segIdx)} ELSE files
                        /\ ThrowInside("extract")
                        /\ UNCHANGED <<segmentPaths, segIdx>>
                   [] OTHER ->
                        /\ ThrowInside("extract")
                        /\ UNCHANGED <<files, segmentPaths, segIdx>>
  /\ UNCHANGED <<caller, outputDir, uploadOk, saveOk, service, manifest,
                 emptyFiles, cleanupFailed, timestamps, cleanupCalls,
                 wsCreated, retPath, wfResult, uploaded, saved, allocVars, pairVars>>

\* mergeSegments: pre-flight checks, manifest, join, existence check; then
\* processVideo's `return outputPath`.
MergeSegments ==
  /\ pc = "merge"
  /\ IF Len(segmentPaths) = 0
          \/ \E i \in 1..Len(segmentPaths) : segmentPaths[i] \notin files
       THEN /\ ThrowInside("concat")
            /\ UNCHANGED <<files, manifest, emptyFiles>>
       ELSE /\ manifest' = ManifestOf(segmentPaths)
            \* exit code of the join, and what it left at outputPath
            \* (-1: the join never exits)
            /\ \E code \in {0, 1, -1}, out \in {"data", "empty", "none"} :
                 /\ files' = files \cup {ListFile}
                                   \cup (IF out = "none" THEN {} ELSE {TempOutput})
                 /\ emptyFiles' = emptyFiles
                                   \cup (IF out = "empty" THEN {TempOutput} ELSE {})
                 /\ IF code = -1
                      THEN /\ pc' = "tool_pending"
                           /\ UNCHANGED <<pending, failedAt>>
                      ELSE IF code = 0 /\ MergedOutputOk(out # "none", out = "empty")
                        THEN /\ pc' = "probe"
                             /\ UNCHANGED <<pending, failedAt>>
                        ELSE ThrowInside("concat")
  /\ UNCHANGED <<caller, outputDir, uploadOk, saveOk, service, cleanupFailed,
                 timestamps, segIdx, segmentPaths, cleanupCalls, wsCreated, retPath,
                 wfResult, uploaded, saved, allocVars, pairVars>>

\* mergeSegments' ffprobe block, then `return outputPath` (and processVideo's).
\* The promise awaited resolves on 'close' whatever the exit code or output;
\* a failed spawn emits 'error', for which no listener is registered.
Probe ==
  /\ pc = "probe"
  /\ \E o \in {"ok", "nonzero", "unparsable", "spawn_error", "never_exits"} :
       CASE ProbeEffect(o) = "resolve" ->
              IF caller = "direct"
                THEN /\ pc' = "pv_returned"
                     /\ pending' = "return"
                     /\ retPath' = TempOutput
                ELSE /\ pc' = "finalize"
                     /\ UNCHANGED <<pending, retPath>>
         [] ProbeEffect(o) = "uncaught" ->
              \* the 'error' event is thrown as an uncaught exception
              /\ pc' = "crashed"
              /\ UNCHANGED <<pending, retPath>>
         [] OTHER ->
              /\ pc' = "tool_pending"
              /\ UNCHANGED <<pending, retPath>>
  /\ UNCHANGED <<caller, outputDir, uploadOk, saveOk, service, manifest, emptyFiles,
                 cleanupFailed, files, timestamps, segIdx, segmentPaths, cleanupCalls,
                 wsCreated, failedAt, wfResult, uploaded, saved, allocVars, pairVars>>

\* extractVideoHighlights after processVideo: optional copy, `return outputPath`.
Finalize ==
  /\ pc = "finalize"
  /\ IF CopiesReel(outputDir)
       THEN \E ok \in BOOLEAN :
              IF ok
                THEN /\ files' = files \cup {OutputPath(outputDir)}
                     /\ emptyFiles' = IF TempOutput \in emptyFiles
                                        THEN emptyFiles \cup {OutputPath(outputDir)}
                                        ELSE emptyFiles
                     /\ pending' = "return"
                     /\ pc' = AfterTry("return")
                     /\ UNCHANGED failedAt
                ELSE /\ ThrowInside("copy")
                     /\ UNCHANGED <<files, emptyFiles>>
       ELSE /\ pending' = "return"
            /\ pc' = AfterTry("return")
            /\ UNCHANGED <<files, emptyFiles, failedAt>>
  /\ UNCHANGED <<caller, outputDir, uploadOk, saveOk, service, manifest,
                 cleanupFailed, timestamps, segIdx, segmentPaths,
                 cleanupCalls, wsCreated, retPath, wfResult, uploaded, saved, allocVars, pairVars>>

\* finally { videoSplitter.cleanup() }, then the pending return or throw (a
\* throw of cleanup() itself replaces either).
Cleanup ==
  /\ pc = "cleanup"
  /\ files' = CleanupFiles(files)
  /\ emptyFiles' = emptyFiles \cap files'
  /\ cleanupFailed' = (cleanupFailed \/ CleanupThrows(files))
  /\ cleanupCalls' = cleanupCalls + 1
  /\ IF pending = "return" /\ ~CleanupThrows(files)
       THEN /\ pc' = "returned"
            /\ retPath' = OutputPath(outputDir)
       ELSE /\ pc' = "failed"
            /\ UNCHANGED retPath
  /\ UNCHANGED <<caller, outputDir, uploadOk, saveOk, service, manifest,
                 timestamps, segIdx, segmentPaths,
                 pending, wsCreated, failedAt, wfResult, uploaded, saved, allocVars, pairVars>>

\* A caller of the class calls cleanup() on its splitter after processVideo
\* has returned or thrown, any number of times.
DirectCleanup ==
  /\ caller = "direct"
  /\ pc \in {"pv_returned", "pv_threw"}
  /\ cleanupCalls < MaxCleanups
  /\ files' = CleanupFiles(files)
  /\ emptyFiles' = emptyFiles \cap files'
  /\ cleanupFailed' = (cleanupFailed \/ CleanupThrows(files))
  /\ cleanupCalls' = cleanupCalls + 1
  /\ UNCHANGED <<pc, caller, outputDir, uploadOk, saveOk, service, manifest,
                 timestamps, segIdx, segmentPaths, pending, wsCreated, retPath,
                 failedAt, wfResult, uploaded, saved, allocVars, pairVars>>

\* processAndSaveVideoHighlights once extractVideoHighlights has returned or
\* thrown: existence check, upload (uploadtocloudinary unlinks the local
\* file; a throw of that unlink leaves the uploader), save, and the catch
\* that turns every throw into success:false.
WorkflowAfterExtract ==
  /\ caller = "workflow"
  /\ pc \in {"returned", "failed"}
  /\ pc' = "wf_done"
  /\ IF pc = "failed" \/ retPath \notin files
       THEN /\ wfResult' = WfOutcome(pc = "returned", FALSE, FALSE, FALSE, FALSE)
            /\ UNCHANGED <<files, emptyFiles, uploaded, saved>>
       ELSE \E unlinkOk \in BOOLEAN :
              /\ files' = IF unlinkOk THEN files \ {retPath} ELSE files
              /\ emptyFiles' = emptyFiles \cap files'
              /\ uploaded' = uploadOk
              /\ saved' = (uploadOk /\ unlinkOk /\ saveOk)
              /\ wfResult' = WfOutcome(TRUE, TRUE, uploadOk, unlinkOk, saveOk)
  /\ UNCHANGED <<caller, outputDir, uploadOk, saveOk, service, manifest,
                 cleanupFailed, timestamps, segIdx, segmentPaths,
                 pending, cleanupCalls, wsCreated, retPath, failedAt, allocVars, pairVars>>

PipeNext ==
  \/ PeakDownload
  \/ PeakAnalyze
  \/ CheckMoments
  \/ NewSplitter
  \/ DownloadVideo
  \/ SplitStep
  \/ MergeSegments
  \/ Probe
  \/ Finalize
  \/ Cleanup
  \/ WorkflowAfterExtract

\* Pipeline variables while the response handling is modelled.
PipeIdle ==
  /\ pc = "idle"
  /\ caller = "route"
  /\ outputDir = FALSE
  /\ uploadOk = TRUE
  /\ saveOk = TRUE
  /\ files = {}
  /\ timestamps = <<>>
  /\ segIdx = 1
  /\ segmentPaths = <<>>
  /\ pending = "none"
  /\ cleanupCalls = 0
  /\ wsCreated = FALSE
  /\ retPath = NoPath
  /\ failedAt = "none"
  /\ wfResult = "none"
  /\ uploaded = FALSE
  /\ saved = FALSE
  /\ service = "none"
  /\ manifest = <<>>
  /\ emptyFiles = {}
  /\ cleanupFailed = FALSE

\* The stage of the run at each position of extractVideoHighlights:
\* getPeakMoments downloads the source, calls the service and applies the
\* 30-second limit; processVideo downloads the source, extracts, joins; the
\* copy and the return follow.  ("STOPPED": the run waits or has crashed.)
StageOf(p, pend) ==
  CASE p = "get_peak_moments" -> "FETCHING"
    [] p = "analyze" -> "DETECTING"
    [] p \in {"check_moments", "new_splitter"} -> "ALLOCATING"
    [] p = "download" -> "FETCHING"
    [] p = "split" -> "EXTRACTING"
    [] p \in {"merge", "probe"} -> "CONCATENATING"
    [] p = "finalize" -> "FINALIZING"
    [] p = "cleanup" -> IF pend = "return" THEN "FINALIZING" ELSE "FAILED"
    [] p \in {"returned", "pv_returned"} -> "DONE"
    [] p \in {"failed", "pv_threw"} -> "FAILED"
    [] p = "wf_done" -> IF pend = "return" THEN "DONE" ELSE "FAILED"
    [] OTHER -> "STOPPED"

\* A caller holding the list of pairs constructs a splitter of its own.
SplitterInit ==
  /\ pc = "new_splitter"
  /\ caller = "direct"
  /\ outputDir = FALSE
  /\ uploadOk = TRUE
  /\ saveOk = TRUE
  /\ files = {}
  /\ timestamps \in DirectPlans
  /\ segIdx = 1
  /\ segmentPaths = <<>>
  /\ pending = "none"
  /\ cleanupCalls = 0
  /\ wsCreated = FALSE
  /\ retPath = NoPath
  /\ failedAt = "none"
  /\ wfResult = "none"
  /\ uploaded = FALSE
  /\ saved = FALSE
  /\ service = "none"
  /\ manifest = <<>>
  /\ emptyFiles = {}
  /\ cleanupFailed = FALSE

SplitterNext ==
  \/ NewSplitter
  \/ DownloadVideo
  \/ SplitStep
  \/ MergeSegments
  \/ Probe
  \/ DirectCleanup

\* ======================================================================
\*  Two runs of extractVideoHighlights in one process
\* ======================================================================

Runs == {1, 2}
DirIds == 1..MaxUuids
\* outputDir + outputFilename of a request body; "none": no outputDir given.
OutNames == {"a", "b"}

\* A file: directory (0: the caller's outputDir, n >= 1: tempDir
\* video-splitter-<n>), name, and the run whose data it holds.
FileRec(d, nm, r) == [dir |-> d, name |-> nm, by |-> r]
Exists(fs, d, nm) == \E f \in fs : f.dir = d /\ f.name = nm
Holder(fs, d, nm) ==
  IF Exists(fs, d, nm) THEN (CHOOSE f \in fs : f.dir = d /\ f.name = nm).by ELSE 0
\* createWriteStream / writeFileSync / ffmpeg -y / copyFileSync: replace.
WriteFile(fs, d, nm, r) ==
  { f \in fs : ~(f.dir = d /\ f.name = nm) } \cup { FileRec(d, nm, r) }

\* uuidv4(): a value no earlier call returned.
UuidAny(id, used) == TRUE
UuidIsFresh(id, used) == id \notin used

\* cleanup() on tempDir d: every file of the directory, then the directory.
PairCleanup(fs, d) == IF Exists(fs, d, "dir") THEN { f \in fs : f.dir # d } ELSE fs

PairNoPath == [dir |-> -1, name |-> "none"]
\* path.join(outputDir || os.tmpdir(), finalOutputFilename)
PairOutputPath(out) ==
  IF out = "none" THEN [dir |-> -2, name |-> "highlights"] ELSE [dir |-> 0, name |-> out]

InProgress(p) == p \in {"download", "split", "merge", "finish", "cleanup"}
Overlap(pcs) == \A r \in Runs : InProgress(pcs[r])

PairInit ==
  /\ runPc = [r \in Runs |-> "new"]
  /\ runDir = [r \in Runs |-> 0]
  /\ runOut \in [Runs -> OutNames \cup {"none"}]
  /\ runPending = [r \in Runs |-> "none"]
  /\ runRet = [r \in Runs |-> PairNoPath]
  /\ disk = {}
  /\ overlapped = FALSE

\* Run r moves to position p; a throw is left pending for the finally clause.
PairGoto(r, p) ==
  /\ runPc' = [runPc EXCEPT ![r] = p]
  /\ overlapped' = (overlapped \/ Overlap(runPc'))

PairThrow(r) ==
  /\ runPending' = [runPending EXCEPT ![r] = "throw"]
  /\ PairGoto(r, "cleanup")

\* getPeakMoments, the empty check and new CloudinaryVideoSplitter().
PairNew(r) ==
  /\ runPc[r] = "new"
  /\ \/ /\ PairGoto(r, "failed")
        /\ UNCHANGED <<runDir, disk>>
     \/ \E id \in DirIds :
          /\ UuidIsFresh(id, { runDir[q] : q \in Runs })
          /\ runDir' = [runDir EXCEPT ![r] = id]
          \* if (!fs.existsSync(this.tempDir)) fs.mkdirSync(...)
          /\ disk' = IF Exists(disk, id, "dir") THEN disk
                                                 ELSE disk \cup {FileRec(id, "dir", r)}
          /\ PairGoto(r, "download")
  /\ UNCHANGED <<runOut, runPending, runRet, allocVars, pipeVars>>

\* One awaited step of processVideo that writes file nm into tempDir.
PairWrite(r, nm, next) ==
  /\ \/ /\ disk' = WriteFile(disk, runDir[r], nm, r)
        /\ PairGoto(r, next)
        /\ UNCHANGED runPending
     \/ /\ PairThrow(r)
        /\ UNCHANGED disk
  /\ UNCHANGED <<runDir, runOut, runRet, allocVars, pipeVars>>

\* downloadVideo
PairDownload(r) ==
  /\ runPc[r] = "download"
  /\ PairWrite(r, "original", "split")

\* splitVideo (a plan of one clip)
PairSplit(r) ==
  /\ runPc[r] = "split"
  /\ PairWrite(r, "segment", "merge")

\* mergeSegments
PairMerge(r) ==
  /\ runPc[r] = "merge"
  /\ PairWrite(r, "reel", "finish")

\* The synchronous tail of extractVideoHighlights once processVideo has
\* resolved: the copy to outputPath, `return outputPath`, finally cleanup().
PairFinish(r) ==
  /\ runPc[r] = "finish"
  /\ \E copied \in BOOLEAN :
       LET out == PairOutputPath(runOut[r])
           afterCopy ==
             IF runOut[r] # "none" /\ copied
               THEN WriteFile(disk, out.dir, out.name, Holder(disk, runDir[r], "reel"))
               ELSE disk
       IN /\ (runOut[r] = "none") => copied
          /\ disk' = PairCleanup(afterCopy, runDir[r])
          /\ IF copied
               THEN /\ runPending' = [runPending EXCEPT ![r] = "return"]
                    /\ runRet' = [runRet EXCEPT ![r] = out]
                    /\ PairGoto(r, "returned")
               ELSE /\ runPending' = [runPending EXCEPT ![r] = "throw"]
                    /\ PairGoto(r, "failed")
                    /\ UNCHANGED runRet
  /\ UNCHANGED <<runDir, runOut, allocVars, pipeVars>>

\* finally { videoSplitter.cleanup() } after a throw inside the try block.
PairCleanupStep(r) ==
  /\ runPc[r] = "cleanup"
  /\ disk' = PairCleanup(disk, runDir[r])
  /\ PairGoto(r, "failed")
  /\ UNCHANGED <<runDir, runOut, runPending, runRet, allocVars, pipeVars>>

PairNext ==
  \E r \in Runs :
    \/ PairNew(r)
    \/ PairDownload(r)
    \/ PairSplit(r)
    \/ PairMerge(r)
    \/ PairFinish(r)
    \/ PairCleanupStep(r)

\* The two-run variables while one run or one response is modelled.
PairIdle ==
  /\ runPc = [r \in Runs |-> "idle"]
  /\ runDir = [r \in Runs |-> 0]
  /\ runOut = [r \in Runs |-> "none"]
  /\ runPending = [r \in Runs |-> "none"]
  /\ runRet = [r \in Runs |-> PairNoPath]
  /\ disk = {}
  /\ overlapped = FALSE

Init == PipeInit /\ AllocIdle /\ PairIdle

Spec == Init /\ [][PipeNext]_vars

\* getPeakMoments' response handling as the code runs it: ceiling 30 s.
InitAlloc == AllocInit(BudgetSeconds) /\ PipeIdle /\ PairIdle

SpecAlloc == InitAlloc /\ [][AllocNext]_vars

\* The same loops at the ceiling of 5 s used by the specification's worked
\* example (minClip 3 s, as in the code).
InitExample == AllocInit(5) /\ PipeIdle /\ PairIdle

SpecExample == InitExample /\ [][AllocNext]_vars

\* The splitter class on its own.
InitSplitter == SplitterInit /\ AllocIdle /\ PairIdle

SpecSplitter == InitSplitter /\ [][SplitterNext]_vars

\* Two requests in flight in one process.
InitPair == PairInit /\ AllocIdle /\ PipeIdle

SpecPair == InitPair /\ [][PairNext]_vars

\* ======================================================================
\*  Claims
\* ======================================================================

\* ---------------------------------------------------------------- C1
\* C1: whenever extractVideoHighlights returns a path, with or without
\* outputDir, the reel exists at the returned path at the moment of return
\* (cleanup removed the workspace copy only after a copy existed there).
C1_ReturnedPathExists == pc = "returned" => retPath \in files

\* ---------------------------------------------------------------- C2
\* C2: if extraction returned a path and the upload and the database save
\* succeed whenever attempted, processAndSaveVideoHighlights ends with
\* success:true, the highlights uploaded and the MediaItem saved.
C2_WorkflowSucceeds ==
  (pc = "wf_done" /\ retPath # NoPath /\ uploadOk /\ saveOk)
    => (wfResult = "success" /\ uploaded /\ saved)

\* ---------------------------------------------------------------- C3
\* C3 as stated: on every exit path of a run, a normal return or a failure
\* thrown at any stage, cleanup() was invoked before the run returned or threw.
C3_CleanupOnEveryExit ==
  pc \in {"returned", "failed"} => cleanupCalls >= 1

\* C3 as amended: on every exit path of a run on which the workspace was
\* created (normal return, or a failure of the splitter's download, of an
\* extraction, of the concatenation or of the copy), cleanup() was invoked
\* exactly once before the run returned or threw.
C3_CleanupOnceWorkspaceExists ==
  (pc \in {"returned", "failed"} /\ wsCreated) => cleanupCalls = 1

C3_Witness ==
  pc = "failed" /\ failedAt = "extract" /\ wsCreated /\ cleanupCalls = 1

\* ---------------------------------------------------------------- C4
\* Files a run creates for its own use: the detection download, the workspace
\* directory and everything in it.
C4_Transient(f) == f.dir = "ws" \/ f = WsDir \/ f = TmpVideo

\* C4: once a run has terminated, no transient file or directory it created
\* (detection download, workspace directory and its content) is left.
C4_NoTransientLeft ==
  pc \in {"returned", "failed", "wf_done"} => \A f \in files : ~C4_Transient(f)

\* ---------------------------------------------------------------- C5
\* C5: for every response and either parse stage, the durations of the
\* accepted segments, and of the returned ones, sum to at most the budget.
C5_TotalWithinBudget ==
  /\ SumDur(final) <= budget
  /\ SumDur(result) <= budget

C5_Witness ==
  apc = "done" /\ SumDur(valid) > budget /\ Len(result) >= 2

\* ---------------------------------------------------------------- C6
C6_WellFormed(seg) == 0 <= seg[1] /\ seg[1] < seg[2]

\* C6: every segment kept by a parse stage, accepted by allocation
\* (truncated ones included) or returned satisfies 0 <= start < end.
C6_SegmentsWellFormed ==
  /\ \A i \in 1..Len(valid) : C6_WellFormed(valid[i])
  /\ \A i \in 1..Len(final) : C6_WellFormed(final[i])
  /\ \A i \in 1..Len(result) : C6_WellFormed(result[i])

C6_Witness ==
  /\ apc = "done"
  /\ Len(result) >= 1
  /\ \E i \in 1..Len(resp.entries) :
       resp.entries[i].pair
         /\ (resp.entries[i].s >= resp.entries[i].e \/ resp.entries[i].s < 0)

\* ---------------------------------------------------------------- C7
\* C7: in either allocation loop, when the next proposal does not fit and
\* the remaining budget is at least minClipSeconds, the step accepts the
\* truncated copy [start, start + remaining], sets the cumulative duration
\* to the budget and stops.
C7_TruncatesWhenRoomLeft ==
  [][ ( /\ apc \in {"alloc", "fb_alloc"}
        /\ total + Dur(valid[idx]) > budget
        /\ budget - total >= MinClipSeconds )
      => ( /\ final' = Append(final, <<valid[idx][1], valid[idx][1] + (budget - total)>>)
           /\ total' = budget
           /\ apc' \in {"return", "fb_return"} ) ]_vars

\* ---------------------------------------------------------------- C8
\* C8: if a segment was truncated, it is the last element of the plan, it
\* stands at the rank of the proposal it was cut from (no later proposal was
\* accepted), and its end is its start plus the budget that remained after
\* the segments before it.
C8_TruncatedIsLast ==
  truncAt # 0 =>
    LET k == Len(final)
    IN /\ k = truncAt
       /\ final[k][1] = valid[k][1]
       /\ final[k][2] = final[k][1] + (budget - SumDur(SubSeq(final, 1, k - 1)))
       /\ \A i \in 1..(k - 1) : final[i] = valid[i]
       /\ apc = "done" => result = final

C8_Witness ==
  apc = "done" /\ truncAt # 0 /\ truncAt < Len(valid) /\ truncAt > 1

\* ---------------------------------------------------------------- C9
C9_Example == << <<5, 8>>, <<20, 23>>, <<40, 50>> >>

\* C9 as stated: proposals [[5,8],[20,23],[40,50]] at budget 5, minClip 3
\* give the plan [[5,8],[20,22]]: two segments, total duration 5.
C9_ExampleTruncates ==
  (apc = "done" /\ valid = C9_Example /\ budget = 5)
    => (result = << <<5, 8>>, <<20, 22>> >> /\ SumDur(result) = 5)

\* C9 as amended: proposals [[5,8],[20,23],[40,50]] at budget 5, minClip 3
\* give the plan [[5,8]] alone, of total duration 3: the 2 s that remain
\* are less than minClip, so [20,23] is not accepted.
C9_ExampleStops ==
  (apc = "done" /\ valid = C9_Example /\ budget = 5)
    => (result = << <<5, 8>> >> /\ SumDur(result) = 3)

C9_Witness ==
  apc = "done" /\ parsePath = "primary" /\ valid = C9_Example /\ budget = 5

\* ---------------------------------------------------------------- C10
C10_KeptByPrimary(x) == x.pair /\ 0 <= x.s /\ x.s < x.e

\* C10: when the durations of all valid proposals sum to at most the budget,
\* the returned plan is exactly the valid proposals, unmodified and in rank
\* order (for the primary parse: the well-formed entries of the response).
C10_AllAcceptedWithinBudget ==
  apc = "done" =>
    /\ SumDur(valid) <= budget => result = valid
    /\ LET wf == ToPairs(SelectSeq(resp.entries, C10_KeptByPrimary))
       IN (parsePath = "primary" /\ SumDur(wf) <= budget) => result = wf

C10_Witness ==
  /\ apc = "done"
  /\ parsePath = "primary"
  /\ budget = BudgetSeconds
  /\ result = C9_Example
  /\ SumDur(result) = 16

\* ---------------------------------------------------------------- C11
\* Consecutive numbers 2k-1, 2k of the raw text form a pair with start < end
\* whose span is within the sanity ceiling.
C11_HasUsablePair(numbers) ==
  \E k \in 1..(Len(numbers) \div 2) :
    /\ numbers[2*k - 1] < numbers[2*k]
    /\ numbers[2*k] - numbers[2*k - 1] <= MaxFallbackSpan

\* C11: a response text without a parseable array whose numbers form at least
\* one pair with start < end and span within the sanity ceiling (two numbers
\* are enough) yields at least one segment, and every segment returned has
\* start < end.
C11_FallbackRecoversPair ==
  (apc = "done" /\ ~resp.parses /\ C11_HasUsablePair(NumberMatches(resp.entries)))
    => /\ Len(result) >= 1
       /\ \A i \in 1..Len(result) : result[i][1] < result[i][2]

\* ---------------------------------------------------------------- C12
\* The numeric scan of the raw text, had it run, would have found segments.
C12_ScanWouldRecover ==
  LET numbers == NumberMatches(resp.entries)
  IN /\ Len(numbers) >= MinFallbackTokens
     /\ FallbackTimestamps(numbers) # <<>>

\* C12: detection returns an empty sequence only from the fallback stage:
\* when the primary parse ends with zero usable pairs (text unparseable, or
\* parsed with every entry discarded) the raw text is scanned for numbers
\* before an empty result is returned.  Checked where the scan has something
\* to find.
C12_EmptyOnlyAfterScan ==
  [][ (apc' = "done" /\ apc # "done" /\ result' = <<>> /\ C12_ScanWouldRecover)
        => apc \in {"catch", "fb_return"} ]_vars

\* ---------------------------------------------------------------- C13
C13_Malformed(x) == ~x.pair \/ x.s >= x.e \/ x.s < 0

\* C13: in the primary parse an entry that is not a pair of numbers, or has
\* start >= end or start < 0, is discarded on its own: the entries kept are
\* exactly the other entries of the response, in their original order, and
\* the parse does not fail (control never enters the catch block).
C13_DiscardsIndividually ==
  resp.parses =>
    /\ apc # "catch"
    /\ parsePath # "fallback"
    /\ parsePath = "primary" =>
         valid = ToPairs(SelectSeq(resp.entries, LAMBDA x : ~C13_Malformed(x)))

C13_Witness ==
  /\ apc = "done"
  /\ parsePath = "primary"
  /\ \E i \in 1..Len(resp.entries) : C13_Malformed(resp.entries[i])
  /\ Len(valid) = 2
  /\ valid[1] # valid[2]
  /\ result = valid

\* ---------------------------------------------------------------- C14
\* Detection has answered (no failure of its own) with zero segments.
C14_ZeroSegments ==
  /\ service = "response"
  /\ Len(timestamps) = 0

\* C14: when detection yields zero segments the run fails with the
\* no-highlights error: no workspace is created, nothing is extracted or
\* joined, no reel (empty or not) is written and no path is returned.
C14_NoHighlightsFails ==
  C14_ZeroSegments =>
    /\ pc \in {"check_moments", "failed", "wf_done"}
    /\ pc # "check_moments" => failedAt = "no_highlights"
    /\ ~wsCreated
    /\ segmentPaths = <<>> /\ manifest = <<>>
    /\ files = {}
    /\ retPath = NoPath
    /\ wfResult # "success"

C14_Witness ==
  /\ C14_ZeroSegments
  /\ service = "response"
  /\ pc = "failed"
  /\ failedAt = "no_highlights"

\* ---------------------------------------------------------------- C15
C15_ServiceFailed == service \in {"service_error", "text_error"}

\* C15: a failure of the detection-service call is not turned into an empty
\* proposal list: the run fails at the detection stage, which differs from
\* the no-highlights failure, and the no-highlights failure is raised only
\* when the service responded.
C15_ServiceFailurePropagates ==
  /\ C15_ServiceFailed =>
       /\ pc \in {"failed", "wf_done"}
       /\ failedAt = "detect"
       /\ retPath = NoPath
       /\ wfResult # "success"
  /\ failedAt = "no_highlights" => service = "response"

C15_Witness ==
  /\ C15_ServiceFailed
  /\ pc = "failed"
  /\ failedAt = "detect"
  /\ TmpVideo \notin files

\* ---------------------------------------------------------------- C16
C16_WorkspaceGone == WsDir \notin files /\ \A f \in files : f.dir # "ws"

\* C16: if the extraction of planned clip k fails, no extraction of a later
\* clip is started, the join is never invoked, the run ends in failure with
\* the workspace removed by cleanup, and no reel path is returned.
C16_ExtractionFailureAborts ==
  failedAt = "extract" =>
    /\ pc \in {"cleanup", "failed", "wf_done"}
    /\ Len(segmentPaths) < segIdx
    /\ \A j \in (segIdx + 1)..Len(timestamps) : Segment(j) \notin files
    /\ manifest = <<>>
    /\ ListFile \notin files /\ TempOutput \notin files
    /\ OutputPath(outputDir) \notin files
    /\ retPath = NoPath
    /\ wfResult # "success"
    /\ pc \in {"failed", "wf_done"} => (cleanupCalls = 1 /\ C16_WorkspaceGone)

C16_Witness ==
  /\ pc = "failed"
  /\ failedAt = "extract"
  /\ Len(timestamps) = 3
  /\ segIdx = 2
  /\ segmentPaths = <<Segment(1)>>

\* ---------------------------------------------------------------- C17
C17_PlannedClips == [ i \in 1..Len(timestamps) |-> Segment(i) ]

\* C17: a reel returned by processVideo(url, timestamps) holds exactly one
\* clip for every pair of the list it was given, whatever the list: either
\* every pair is extracted and joined or processVideo throws.
C17_ReelHasEveryPlannedClip ==
  pc = "pv_returned" => manifest = C17_PlannedClips

\* ---------------------------------------------------------------- C18
\* C18: the join starts only after every planned extraction has completed,
\* and the manifest lists the clips in plan order, clip i of the list
\* returned by getPeakMoments at position i.
C18_JoinInPlanOrder ==
  /\ pc = "merge" => segIdx = Len(timestamps) + 1
  /\ manifest # <<>> =>
       /\ segIdx = Len(timestamps) + 1
       /\ Len(manifest) = Len(timestamps)
       /\ \A i \in 1..Len(manifest) : manifest[i] = Segment(i)

C18_Witness ==
  /\ pc = "returned"
  /\ Len(timestamps) = 3
  /\ manifest = <<Segment(1), Segment(2), Segment(3)>>

\* ---------------------------------------------------------------- C19
\* C19: mergeSegments returns (the run goes on to the copy / return) only if
\* the output file exists and is not empty; an exit code 0 with the output
\* missing or of size zero makes it throw.
C19_OutputVerified ==
  pc = "finalize" => (TempOutput \in files /\ TempOutput \notin emptyFiles)

\* ---------------------------------------------------------------- C20
\* C20: cleanup() is idempotent: whatever processVideo left in the
\* workspace, no call of cleanup(), first or later, throws, and after each
\* call the workspace directory and every file in it are gone.
C20_CleanupIdempotent ==
  cleanupCalls >= 1 =>
    /\ ~cleanupFailed
    /\ WsDir \notin files
    /\ \A f \in files : f.dir # "ws"
    /\ emptyFiles = {}

C20_Witness ==
  /\ cleanupCalls >= 2
  /\ pc = "pv_threw"
  /\ failedAt = "concat"
  /\ manifest # <<>>

\* ---------------------------------------------------------------- C21
\* Run r still finds in its own tempDir every file it has written so far.
C21_OwnFilesIntact(r) ==
  /\ (InProgress(runPc[r]) /\ runPc[r] # "cleanup") => Holder(disk, runDir[r], "dir") = r
  /\ runPc[r] \in {"split", "merge", "finish"} => Holder(disk, runDir[r], "original") = r
  /\ runPc[r] \in {"merge", "finish"} => Holder(disk, runDir[r], "segment") = r
  /\ runPc[r] = "finish" => Holder(disk, runDir[r], "reel") = r

\* C21: in every interleaving of two runs the workspace directories are
\* distinct, every file inside a workspace holds the data of the run that
\* owns the workspace, and no step of the other run (its cleanup() included)
\* removes or replaces a file a run has written to its own workspace.
C21_WorkspacesIsolated ==
  /\ \A r, q \in Runs : (r # q /\ runDir[r] # 0) => runDir[r] # runDir[q]
  /\ \A f \in disk : f.dir >= 1 => runDir[f.by] = f.dir
  /\ \A r \in Runs : C21_OwnFilesIntact(r)

C21_Witness ==
  /\ overlapped
  /\ runPc[1] \in {"returned", "failed"}
  /\ runDir[1] # 0
  /\ ~Exists(disk, runDir[1], "dir")
  /\ runPc[2] = "finish"
  /\ Holder(disk, runDir[2], "reel") = 2

\* ---------------------------------------------------------------- C28
\* C28: when two runs that were in progress at the same time were given the
\* same outputDir and outputFilename, each run that has returned a path
\* finds its own reel in the file at that path.
C28_OwnReelAtReturnedPath ==
  \A r \in Runs :
    (overlapped /\ runOut[1] = runOut[2] /\ runOut[r] # "none" /\ runPc[r] = "returned")
      => Holder(disk, runRet[r].dir, runRet[r].name) = r

\* ---------------------------------------------------------------- C22
\* A download is being made: getPeakMoments' or downloadVideo's.
C22_Fetching == pc \in {"get_peak_moments", "download", "fetch_pending"}

\* C22: every fetch terminates: while a download is in progress the run can
\* always take a further step (the download completes, or fails and the
\* failure is handled); no error of the response stream leaves it pending.
C22_FetchTerminates == C22_Fetching => ENABLED PipeNext

\* ---------------------------------------------------------------- C23
\* A media tool has been invoked: extraction, join or probe.
C23_ToolRunning == pc \in {"split", "merge", "probe", "tool_pending"}

\* C23: every media-tool invocation is bounded: while one is running the run
\* can always take a further step (the tool exits, or is killed on expiry
\* and the step fails), so the run never waits forever on a subprocess.
C23_ToolsBounded == C23_ToolRunning => ENABLED PipeNext

\* ---------------------------------------------------------------- C24
\* C24: the probe is diagnostic only: once the join has succeeded, whatever
\* the probe does (success, non-zero exit, unparsable output, failure to
\* spawn) the run goes on to return the reel path, with nothing else changed.
\* (A probe that never exits is the subject of C23.)
C24_ProbeIsDiagnostic ==
  [][ (pc = "probe" /\ pc' # "tool_pending")
        => (pc' = "finalize" /\ files' = files /\ failedAt' = failedAt) ]_vars

\* ---------------------------------------------------------------- C25
C25_Rank(stage) ==
  CASE stage = "FETCHING" -> 1
    [] stage = "DETECTING" -> 2
    [] stage = "ALLOCATING" -> 3
    [] stage = "EXTRACTING" -> 4
    [] stage = "CONCATENATING" -> 5
    [] stage = "FINALIZING" -> 6
    [] stage = "DONE" -> 7
    [] OTHER -> 8

\* C25: a run passes through FETCHING, DETECTING, ALLOCATING, EXTRACTING,
\* CONCATENATING, FINALIZING, DONE in this order: no step takes it back to
\* an earlier stage (the source is not fetched again once detection or
\* allocation has started); FAILED is the only other way out, and final.
C25_StagesInOrder ==
  [][ LET before == StageOf(pc, pending)
          after == StageOf(pc', pending')
      IN /\ C25_Rank(after) >= C25_Rank(before)
         /\ before = "FAILED" => after = "FAILED" ]_vars

\* ---------------------------------------------------------------- C26
\* The last element of plan p is proposal v shortened at its end.
C26_Truncated(p, v) == p[1] = v[1] /\ p[2] < v[2]

\* C26: the plan returned is a prefix of the valid proposals in rank order
\* in which at most the last element is truncated, and allocation stops at
\* the first proposal that does not fit: when proposals are left over, the
\* last one taken was truncated or the next one does not fit, whatever
\* comes after it.
C26_PlanIsPrefix ==
  apc = "done" =>
    LET n == Len(result)
    IN /\ n <= Len(valid)
       /\ \A i \in 1..(n - 1) : result[i] = valid[i]
       /\ n >= 1 => (result[n] = valid[n] \/ C26_Truncated(result[n], valid[n]))
       /\ (n < Len(valid) /\ parsePath # "none") =>
            \/ n >= 1 /\ C26_Truncated(result[n], valid[n])
            \/ SumDur(result) + Dur(valid[n + 1]) > budget

\* A later proposal would have fitted after the one that was dropped.
C26_Witness ==
  /\ apc = "done"
  /\ Len(valid) = 3
  /\ Len(result) = 1
  /\ result[1] = valid[1]
  /\ SumDur(result) + Dur(valid[3]) <= budget

\* ---------------------------------------------------------------- C27
\* C27: at the code's constants the plan is empty if and only if parsing
\* produced no valid proposal: when there is one, the first is in the plan,
\* unmodified or truncated.
C27_EmptyPlanIffNoProposals ==
  apc = "done" =>
    /\ (result = <<>>) <=> (valid = <<>>)
    /\ valid # <<>> =>
         (result[1] = valid[1] \/ C26_Truncated(result[1], valid[1]))

C27_Witness ==
  /\ apc = "done"
  /\ valid # <<>>
  /\ Dur(valid[1]) > budget
  /\ result = << <<valid[1][1], valid[1][1] + budget>> >>

\* ---------------------------------------------------------------- C29
\* C29: processAndSaveVideoHighlights never throws: whatever step failed, it
\* ends by returning success:false, and it returns success:true only after
\* the MediaItem was saved.
C29_WorkflowNeverThrows ==
  /\ pc = "wf_done" =>
       /\ wfResult \in {"success", "failure"}
       /\ wfResult = "success" => saved
       /\ (failedAt # "none" \/ retPath \notin files \cup {NoPath}) => wfResult = "failure"
  /\ (caller = "workflow" /\ pc \in {"returned", "failed"}) => ENABLED WorkflowAfterExtract

C29_Witness ==
  /\ pc = "wf_done"
  /\ failedAt = "extract"
  /\ cleanupCalls = 1
  /\ wfResult = "failure"

====
